---- MODULE Spec2Model ----
(***************************************************************************)
(* The TextBox widget of orbtk (src/widget/text_box.rs) and the Stack      *)
(* widget (src/widget/stack.rs): the template tree built by                *)
(* TextBox::create, the shared property cells it threads through the tree, *)
(* the TextBoxState (text buffer, focus mirror, updated flag), its         *)
(* key-down handler and its per-tick update.                               *)
(*                                                                         *)
(* Strings are sequences of character codes.  A property value lives in a  *)
(* cell of a heap; SharedProperty::new allocates a cell of its own, and a  *)
(* widget reads and writes a property through the cell its handle names.   *)
(***************************************************************************)
EXTENDS Integers, Sequences, FiniteSets, TLC

\* ------------------------------------------------------------------ bounds

\* Longest text the model lets the key-down handler build in the buffer.
MaxLen == 2

\* Longest text the model lets an external holder write to the Label.
MaxWrite == 1

\* Most callbacks an application registers after the TextBox's own.
MaxExtra == 1

\* ------------------------------------------------------------ keys (event)

\* The keys delivered to the handler: three letter keys, Backspace and one
\* key that maps to no byte.
Keys == {"A", "B", "C", "Backspace", "Up"}

\* <Option<u8>>::from(key): Some(byte) is <<byte>>, None is <<>>.
KeyToByte(key) ==
    CASE key = "A" -> << 97 >>
      [] key = "B" -> << 98 >>
      [] key = "C" -> << 99 >>
      [] OTHER -> << >>

\* The characters the letter keys produce ('a', 'b', 'c').
Chars == {97, 98, 99}

\* `byte as char`: the character whose code point is the byte.
ByteAsChar(byte) == byte

\* All strings over Chars of length at most n.
Strings(n) == UNION {[1..k -> Chars] : k \in 0..n}

\* String::push
Push(s, c) == Append(s, c)

\* String::pop: removes the last character, nothing on the empty string.
Pop(s) == IF Len(s) = 0 THEN s ELSE SubSeq(s, 1, Len(s) - 1)

\* --------------------------------------------------------- shared property

\* SharedProperty::new: a cell of its own for the wrapped value.  alloc is
\* the number of cells allocated before it, so no two calls give one cell.
SharedPropertyNew(name, alloc) == <<name, alloc>>

\* SharedProperty::clone: another handle to the same reference-counted
\* cell (spec section 3: the holders of a clone alias one cell).
SharedPropertyClone(handle) == handle

\* The property type a cell holds.
CellType(cell) ==
    CASE cell[1] = "label" -> "Label"
      [] cell[1] = "water_mark" -> "WaterMark"
      [] cell[1] = "selector" -> "Selector"
      [] cell[1] = "focused" -> "Focused"

\* The value a cell is created with: Label::default(), WaterMark::default(),
\* Selector::new().with("textbox"), Focused(false).
CellDefault(cell) ==
    CASE cell[1] = "label" -> << >>
      [] cell[1] = "water_mark" -> << >>
      [] cell[1] = "selector" -> "textbox"
      [] cell[1] = "focused" -> FALSE

\* ---------------------------------------------------------------- template

\* Template::default()
TemplateDefault ==
    [parent_type |-> "None", children |-> << >>, properties |-> {},
     layout_object |-> "None", state |-> FALSE, event_handlers |-> 0,
     debug_name |-> ""]

as_parent_type(t, p) == [t EXCEPT !.parent_type = p]

\* with_child appends; a child beyond the declared parent arity is ignored
\* (None takes no child, Single at most one).
with_child(t, child) ==
    CASE t.parent_type = "None" -> t
      [] t.parent_type = "Single" ->
            IF Len(t.children) = 0 THEN [t EXCEPT !.children = << child >>] ELSE t
      [] t.parent_type = "Multi" -> [t EXCEPT !.children = Append(@, child)]

\* A property is stored by type: a later one of the same type replaces it.
with_shared_property(t, cell) ==
    [t EXCEPT !.properties =
        {p \in @ : p[1] # CellType(cell)} \cup {<<CellType(cell), cell>>}]

\* with_property: a value owned by this widget alone, in a cell of its own.
with_property(t, cell) == with_shared_property(t, cell)

with_layout_object(t, l) == [t EXCEPT !.layout_object = l]

with_state(t) == [t EXCEPT !.state = TRUE]

with_event_handler(t) == [t EXCEPT !.event_handlers = @ + 1]

with_debug_name(t, n) == [t EXCEPT !.debug_name = n]

\* A Stack declared with a single child slot.
StackCreateSingle ==
    with_debug_name(
        with_layout_object(as_parent_type(TemplateDefault, "Single"),
                           "StretchLayoutObject"),
        "Stack")

\* Stack::create
StackCreate ==
    with_debug_name(
        with_layout_object(as_parent_type(TemplateDefault, "Multi"),
                           "StretchLayoutObject"),
        "Stack")

\* Container::create, ScrollViewer::create: single-child widgets.
ContainerCreate ==
    with_debug_name(as_parent_type(TemplateDefault, "Single"), "Container")

ScrollViewerCreate ==
    with_debug_name(as_parent_type(TemplateDefault, "Single"), "ScrollViewer")

\* WaterMarkTextBlock::create, Cursor::create: leaves.
WaterMarkTextBlockCreate == with_debug_name(TemplateDefault, "WaterMarkTextBlock")

CursorCreate == with_debug_name(TemplateDefault, "Cursor")

\* TextBox::create that gives the text block a Label of its own instead of
\* a clone of the TextBox's Label.
TextBoxCreateOwnLabel ==
    LET label == SharedPropertyNew("label", 0)
        water_mark == SharedPropertyNew("water_mark", 1)
        selector == SharedPropertyNew("selector", 2)
        block ==
            with_shared_property(
                with_shared_property(
                    with_shared_property(WaterMarkTextBlockCreate,
                                         SharedPropertyNew("label", 4)),
                    SharedPropertyClone(selector)),
                SharedPropertyClone(water_mark))
        stack ==
            with_child(
                with_child(StackCreate, with_child(ScrollViewerCreate, block)),
                CursorCreate)
        container ==
            with_shared_property(with_child(ContainerCreate, stack),
                                 SharedPropertyClone(selector))
        t1 == as_parent_type(TemplateDefault, "Single")
        t2 == with_property(t1, SharedPropertyNew("focused", 3))
        t3 == with_child(t2, container)
        t4 == with_state(t3)
        t5 == with_debug_name(t4, "TextBox")
        t6 == with_shared_property(t5, label)
        t7 == with_shared_property(t6, selector)
        t8 == with_shared_property(t7, water_mark)
    IN with_event_handler(t8)

\* TextBox::create
TextBoxCreate ==
    LET label == SharedPropertyNew("label", 0)
        water_mark == SharedPropertyNew("water_mark", 1)
        selector == SharedPropertyNew("selector", 2)
        block ==
            with_shared_property(
                with_shared_property(
                    with_shared_property(WaterMarkTextBlockCreate,
                                         SharedPropertyClone(label)),
                    SharedPropertyClone(selector)),
                SharedPropertyClone(water_mark))
        stack ==
            with_child(
                with_child(StackCreate, with_child(ScrollViewerCreate, block)),
                CursorCreate)
        container ==
            with_shared_property(with_child(ContainerCreate, stack),
                                 SharedPropertyClone(selector))
        t1 == as_parent_type(TemplateDefault, "Single")
        t2 == with_property(t1, SharedPropertyNew("focused", 3))
        t3 == with_child(t2, container)
        t4 == with_state(t3)
        t5 == with_debug_name(t4, "TextBox")
        t6 == with_shared_property(t5, label)
        t7 == with_shared_property(t6, selector)
        t8 == with_shared_property(t7, water_mark)
    IN with_event_handler(t8)

\* The nodes of a template tree.
RECURSIVE Nodes(_)
Nodes(t) == {t} \cup UNION {Nodes(t.children[i]) : i \in 1..Len(t.children)}

\* The tree the runtime instantiates: one WidgetContainer per Template.
Tree == Nodes(TextBoxCreate)

\* The WidgetContainer of a widget: its resolved properties.
WidgetContainer(name) == (CHOOSE t \in Tree : t.debug_name = name).properties

\* Every cell some widget of the tree holds.
Cells == {p[2] : p \in UNION {t.properties : t \in Tree}}

\* The widgets holding a property of the given type.
Holders(type) == {t.debug_name : t \in {u \in Tree : \E p \in u.properties : p[1] = type}}

\* ---------------------------------------------------------- property access

\* Ok(_) or Err(NotFound) of borrow_property / borrow_mut_property
HasProperty(widget, type) == \E p \in widget : p[1] = type

\* The cell a container stores for a property type.
PropertyCell(widget, type) == (CHOOSE p \in widget : p[1] = type)[2]

\* borrow_property::<T>(): the cell of the property, read only.
borrow_property(widget, type) == PropertyCell(widget, type)

\* A mutable borrow that resolves the WaterMark where the Label is asked for.
borrow_mut_wrong_property(widget, type) ==
    IF type = "Label" /\ HasProperty(widget, "WaterMark")
    THEN PropertyCell(widget, "WaterMark")
    ELSE PropertyCell(widget, type)

\* borrow_mut_property::<T>(): the cell of the property, for writing.
borrow_mut_property(widget, type) == PropertyCell(widget, type)

\* ------------------------------------------------------------- TextBoxState

\* update_text without the focus check.
update_text_unchecked(st, key) ==
    LET byte == KeyToByte(key)
        text == IF Len(byte) = 1 THEN Push(st.text, ByteAsChar(byte[1]))
                ELSE IF key = "Backspace" THEN Pop(st.text)
                ELSE st.text
    IN [state |-> [st EXCEPT !.text = text, !.updated = TRUE], ret |-> TRUE]

\* update_text that edits the buffer but reports the key as not handled.
update_text_unconsumed(st, key) ==
    IF ~st.focused
    THEN [state |-> st, ret |-> FALSE]
    ELSE [state |-> update_text_unchecked(st, key).state, ret |-> FALSE]

\* update_text that handles only the keys that change the text: a key that
\* is neither a byte nor Backspace is reported as not handled.
update_text_edits_only(st, key) ==
    IF ~st.focused \/ (Len(KeyToByte(key)) = 0 /\ key # "Backspace")
    THEN [state |-> st, ret |-> FALSE]
    ELSE update_text_unchecked(st, key)

\* TextBoxState::update_text: the new state and the returned bool.
update_text(st, key) ==
    IF ~st.focused
    THEN [state |-> st, ret |-> FALSE]
    ELSE LET byte == KeyToByte(key)
             text == IF Len(byte) = 1 THEN Push(st.text, ByteAsChar(byte[1]))
                     ELSE IF key = "Backspace" THEN Pop(st.text)
                     ELSE st.text
         IN [state |-> [st EXCEPT !.text = text, !.updated = TRUE], ret |-> TRUE]

\* update that never pulls the external value inward.
update_no_pull(st, widget, h) ==
    LET st1 == IF HasProperty(widget, "Focused")
               THEN [st EXCEPT !.focused = h[borrow_property(widget, "Focused")]]
               ELSE st
    IN IF HasProperty(widget, "Label")
       THEN LET label == borrow_mut_property(widget, "Label")
            IN IF h[label] = st1.text
               THEN [state |-> st1, heap |-> h, path |-> "equal"]
               ELSE IF st1.updated
               THEN [state |-> [st1 EXCEPT !.updated = FALSE],
                     heap |-> [h EXCEPT ![label] = st1.text], path |-> "push"]
               ELSE [state |-> [st1 EXCEPT !.updated = FALSE],
                     heap |-> h, path |-> "pull"]
       ELSE [state |-> st1, heap |-> h, path |-> "nolabel"]

\* update that never pushes the buffer outward.
update_no_push(st, widget, h) ==
    LET st1 == IF HasProperty(widget, "Focused")
               THEN [st EXCEPT !.focused = h[borrow_property(widget, "Focused")]]
               ELSE st
    IN IF HasProperty(widget, "Label")
       THEN LET label == borrow_mut_property(widget, "Label")
            IN IF h[label] = st1.text
               THEN [state |-> st1, heap |-> h, path |-> "equal"]
               ELSE IF st1.updated
               THEN [state |-> [st1 EXCEPT !.updated = FALSE],
                     heap |-> h, path |-> "push"]
               ELSE [state |-> [st1 EXCEPT !.text = h[label], !.updated = FALSE],
                     heap |-> h, path |-> "pull"]
       ELSE [state |-> st1, heap |-> h, path |-> "nolabel"]

\* update in which the external value wins whenever the two differ.
update_external_wins(st, widget, h) ==
    LET st1 == IF HasProperty(widget, "Focused")
               THEN [st EXCEPT !.focused = h[borrow_property(widget, "Focused")]]
               ELSE st
    IN IF HasProperty(widget, "Label")
       THEN LET label == borrow_mut_property(widget, "Label")
            IN IF h[label] = st1.text
               THEN [state |-> st1, heap |-> h, path |-> "equal"]
               ELSE IF st1.updated
               THEN [state |-> [st1 EXCEPT !.text = h[label], !.updated = FALSE],
                     heap |-> h, path |-> "push"]
               ELSE [state |-> [st1 EXCEPT !.text = h[label], !.updated = FALSE],
                     heap |-> h, path |-> "pull"]
       ELSE [state |-> st1, heap |-> h, path |-> "nolabel"]

\* update that unwraps the Label access: it panics on a container that
\* never declared a Label.
update_unwrap(st, widget, h) ==
    LET st1 == IF HasProperty(widget, "Focused")
               THEN [st EXCEPT !.focused = h[borrow_property(widget, "Focused")]]
               ELSE st
    IN IF HasProperty(widget, "Label")
       THEN LET label == borrow_mut_property(widget, "Label")
            IN IF h[label] = st1.text
               THEN [state |-> st1, heap |-> h, path |-> "equal"]
               ELSE IF st1.updated
               THEN [state |-> [st1 EXCEPT !.updated = FALSE],
                     heap |-> [h EXCEPT ![label] = st1.text], path |-> "push"]
               ELSE [state |-> [st1 EXCEPT !.text = h[label], !.updated = FALSE],
                     heap |-> h, path |-> "pull"]
       ELSE [state |-> st1, heap |-> h, path |-> "panic"]

\* update that refreshes the focus mirror only after the early return.
update_focus_late(st, widget, h) ==
    LET st1 == IF HasProperty(widget, "Focused")
               THEN [st EXCEPT !.focused = h[borrow_property(widget, "Focused")]]
               ELSE st
    IN IF HasProperty(widget, "Label")
       THEN LET label == borrow_mut_property(widget, "Label")
            IN IF h[label] = st.text
               THEN [state |-> st, heap |-> h, path |-> "equal"]
               ELSE IF st1.updated
               THEN [state |-> [st1 EXCEPT !.updated = FALSE],
                     heap |-> [h EXCEPT ![label] = st1.text], path |-> "push"]
               ELSE [state |-> [st1 EXCEPT !.text = h[label], !.updated = FALSE],
                     heap |-> h, path |-> "pull"]
       ELSE [state |-> st1, heap |-> h, path |-> "nolabel"]

\* update that takes a missing Label for the default (empty) Label.
update_missing_as_default(st, widget, h) ==
    LET st1 == IF HasProperty(widget, "Focused")
               THEN [st EXCEPT !.focused = h[borrow_property(widget, "Focused")]]
               ELSE st
    IN IF HasProperty(widget, "Label")
       THEN LET label == borrow_mut_property(widget, "Label")
            IN IF h[label] = st1.text
               THEN [state |-> st1, heap |-> h, path |-> "equal"]
               ELSE IF st1.updated
               THEN [state |-> [st1 EXCEPT !.updated = FALSE],
                     heap |-> [h EXCEPT ![label] = st1.text], path |-> "push"]
               ELSE [state |-> [st1 EXCEPT !.text = h[label], !.updated = FALSE],
                     heap |-> h, path |-> "pull"]
       ELSE [state |-> [st1 EXCEPT !.text = << >>, !.updated = FALSE],
             heap |-> h, path |-> "nolabel"]

\* TextBoxState::update: the new state, the new heap and the path taken
\* ("equal": early return, "push": buffer written to Label, "pull": Label
\* read into the buffer, "nolabel": the container has no Label).
update(st, widget, h) ==
    LET st1 == IF HasProperty(widget, "Focused")
               THEN [st EXCEPT !.focused = h[borrow_property(widget, "Focused")]]
               ELSE st
    IN IF HasProperty(widget, "Label")
       THEN LET label == borrow_mut_property(widget, "Label")
            IN IF h[label] = st1.text
               THEN [state |-> st1, heap |-> h, path |-> "equal"]
               ELSE IF st1.updated
               THEN [state |-> [st1 EXCEPT !.updated = FALSE],
                     heap |-> [h EXCEPT ![label] = st1.text], path |-> "push"]
               ELSE [state |-> [st1 EXCEPT !.text = h[label], !.updated = FALSE],
                     heap |-> h, path |-> "pull"]
       ELSE [state |-> st1, heap |-> h, path |-> "nolabel"]

\* ------------------------------------------------------------ key dispatch

\* The callbacks of the TextBox's KeyEventHandler as TextBox::create
\* registers them: the one on_key_down closure.
TextBoxHandlers == [i \in 1..TextBoxCreate.event_handlers |-> "TextBox"]

\* The handler chains of the model: the TextBox's own callback, followed by
\* callbacks an application registers after it.  "Accept" returns true,
\* "Decline" returns false, neither touches the TextBoxState.
Chains ==
    {TextBoxHandlers \o extra :
        extra \in UNION {[1..k -> {"Accept", "Decline"}] : k \in 0..MaxExtra}}

\* One callback runs on the event: the state it leaves and what it returns.
Callback(name, st, key) ==
    CASE name = "TextBox" -> update_text(st, key)
      [] name = "Accept" -> [state |-> st, ret |-> TRUE]
      [] name = "Decline" -> [state |-> st, ret |-> FALSE]

\* Dispatch of one key event from position i of the chain on: callbacks run
\* in registration order, the first that returns true consumes the event,
\* and an event nobody consumed is forwarded to the parent.  observers lists
\* who saw the event; ret is what the TextBox's callback returned (false
\* when it was not reached).
RECURSIVE DispatchFrom(_, _, _, _)
DispatchFrom(chain, i, st, key) ==
    IF i > Len(chain)
    THEN [state |-> st, ret |-> FALSE, consumed |-> FALSE,
          observers |-> << "Parent" >>]
    ELSE LET r == Callback(chain[i], st, key)
         IN IF r.ret
            THEN [state |-> r.state, ret |-> (chain[i] = "TextBox"),
                  consumed |-> TRUE, observers |-> << chain[i] >>]
            ELSE LET rest == DispatchFrom(chain, i + 1, r.state, key)
                 IN [rest EXCEPT !.observers = << chain[i] >> \o @]

Dispatch(chain, st, key) == DispatchFrom(chain, 1, st, key)

\* The stateful widgets the runtime updates in one tick, in tree order: the
\* TextBox and a widget after it.
TickOrder == << "TextBox", "Sibling" >>

\* The widgets whose State::update ran in an update phase in which the
\* TextBoxState's update ended on the given path: a panic unwinds out of
\* the phase before any update completes.
Completed(p) == IF p = "panic" THEN << >> ELSE TickOrder

\* ----------------------------------------------------------------- machine

VARIABLES
    text,        \* TextBoxState.text
    focused,     \* TextBoxState.focused
    updated,     \* TextBoxState.updated
    heap,        \* the value of every property cell
    widget,      \* the WidgetContainer the state is attached to
    op,          \* the operation that ran last
    ret,         \* what the key-down handler returned last
    observers,   \* who observed the last key event
    path,        \* the path the last update took
    sinceKey,    \* a key was handled in the current update interval
    sinceWrite,  \* Label was written from outside in the current interval
    scen,        \* position in the text-input scenario, -1 when off it
    handlers,    \* the key-down callbacks of the widget, in registration order
    ran          \* the widgets whose update ran in the last update phase

vars == <<text, focused, updated, heap, widget, op, ret, observers, path,
          sinceKey, sinceWrite, scen, handlers, ran>>

State == [text |-> text, focused |-> focused, updated |-> updated]

\* Property values as read through a widget's handle.
Read(name, type) == heap[PropertyCell(WidgetContainer(name), type)]

\* The Label and Focused properties of the state's own container.
Label == heap[PropertyCell(widget, "Label")]
FocusedProp == heap[PropertyCell(widget, "Focused")]

\* The state after construction: TextBoxState::default() and the cells
\* with the values TextBox::create gives them.
Init ==
    /\ text = << >>
    /\ focused = FALSE
    /\ updated = FALSE
    /\ heap = [c \in Cells |-> CellDefault(c)]
    /\ widget = WidgetContainer("TextBox")
    /\ op = "create"
    /\ ret = FALSE
    /\ observers = << >>
    /\ path = "none"
    /\ sinceKey = FALSE
    /\ sinceWrite = FALSE
    /\ scen = 0
    /\ handlers = TextBoxHandlers
    /\ ran = << >>

\* An update interval ends with an update call: the interval flags describe
\* the interval that the last update closed until the next operation starts
\* a new one.
OpenKey == IF op = "update" THEN FALSE ELSE sinceKey
OpenWrite == IF op = "update" THEN FALSE ELSE sinceWrite

\* The text-input scenario: key 'a', Focused := true, keys 'a' 'b' 'c',
\* update, Backspace, update.
ScenNext(o, arg) ==
    CASE scen = 0 /\ o = "key" /\ arg = "A" -> 1
      [] scen = 1 /\ o = "focus" /\ arg = TRUE -> 2
      [] scen = 2 /\ o = "key" /\ arg = "A" -> 3
      [] scen = 3 /\ o = "key" /\ arg = "B" -> 4
      [] scen = 4 /\ o = "key" /\ arg = "C" -> 5
      [] scen = 5 /\ o = "update" -> 6
      [] scen = 6 /\ o = "key" /\ arg = "Backspace" -> 7
      [] scen = 7 /\ o = "update" -> 8
      [] OTHER -> -1

\* The key-down handler runs for one key.
KeyDown(key) ==
    LET d == Dispatch(handlers, State, key)
    IN /\ Len(d.state.text) <= MaxLen
       /\ text' = d.state.text
       /\ focused' = d.state.focused
       /\ updated' = d.state.updated
       /\ ret' = d.ret
       /\ observers' = d.observers
       /\ op' = "key"
       /\ sinceKey' = (OpenKey \/ d.ret)
       /\ sinceWrite' = OpenWrite
       /\ scen' = ScenNext("key", key)
       /\ UNCHANGED <<heap, widget, path, handlers, ran>>

\* The runtime calls State::update on the container.
Update ==
    LET u == update(State, widget, heap)
    IN /\ text' = u.state.text
       /\ focused' = u.state.focused
       /\ updated' = u.state.updated
       /\ heap' = u.heap
       /\ path' = u.path
       /\ op' = "update"
       /\ scen' = ScenNext("update", 0)
       /\ ran' = Completed(u.path)
       /\ UNCHANGED <<widget, ret, observers, sinceKey, sinceWrite, handlers>>

\* The focus collaborator sets the Focused property.
SetFocused(b) ==
    /\ HasProperty(widget, "Focused")
    /\ b # FocusedProp
    /\ heap' = [heap EXCEPT ![PropertyCell(widget, "Focused")] = b]
    /\ op' = "focus"
    /\ sinceKey' = OpenKey
    /\ sinceWrite' = OpenWrite
    /\ scen' = ScenNext("focus", b)
    /\ UNCHANGED <<text, focused, updated, widget, ret, observers, path,
                   handlers, ran>>

\* A holder of the Label writes it through its own handle.
WriteLabel(name, v) ==
    LET cell == PropertyCell(WidgetContainer(name), "Label")
    IN /\ v # heap[cell]
       /\ heap' = [heap EXCEPT ![cell] = v]
       /\ op' = "write"
       /\ sinceKey' = OpenKey
       /\ sinceWrite' = TRUE
       /\ scen' = -1
       /\ UNCHANGED <<text, focused, updated, widget, ret, observers, path,
                      handlers, ran>>

\* A holder of the WaterMark or of the Selector writes it.
WriteShared(name, type, v) ==
    LET cell == PropertyCell(WidgetContainer(name), type)
    IN /\ v # heap[cell]
       /\ heap' = [heap EXCEPT ![cell] = v]
       /\ op' = "write_shared"
       /\ sinceKey' = OpenKey
       /\ sinceWrite' = OpenWrite
       /\ scen' = -1
       /\ UNCHANGED <<text, focused, updated, widget, ret, observers, path,
                      handlers, ran>>

\* The values the model writes to the WaterMark and to the Selector.
WaterMarks == {<< >>, << 97 >>}
Selectors == {"textbox", "other"}

\* One step of the widget: a key event, an update call, a focus change or
\* an external write of the Label.
Next ==
    \/ \E key \in Keys : KeyDown(key)
    \/ Update
    \/ \E b \in BOOLEAN : SetFocused(b)
    \/ \E name \in Holders("Label"), v \in Strings(MaxWrite) : WriteLabel(name, v)

Spec == Init /\ [][Next]_vars

\* The same with external writes of the WaterMark and of the Selector.
WriteWaterMark ==
    \E name \in Holders("WaterMark"), v \in WaterMarks :
        WriteShared(name, "WaterMark", v)

WriteSelector ==
    \E name \in Holders("Selector"), v \in Selectors :
        WriteShared(name, "Selector", v)

NextShared == Next \/ WriteWaterMark \/ WriteSelector

SpecShared == Init /\ [][NextShared]_vars

\* The same with application callbacks registered after the TextBox's own.
InitDispatch ==
    /\ text = << >>
    /\ focused = FALSE
    /\ updated = FALSE
    /\ heap = [c \in Cells |-> CellDefault(c)]
    /\ widget = WidgetContainer("TextBox")
    /\ op = "create"
    /\ ret = FALSE
    /\ observers = << >>
    /\ path = "none"
    /\ sinceKey = FALSE
    /\ sinceWrite = FALSE
    /\ scen = 0
    /\ handlers \in Chains
    /\ ran = << >>

SpecDispatch == InitDispatch /\ [][Next]_vars

\* The containers State::update may be handed: the one TextBox::create
\* builds, and containers that never declared a Label, a Focused, or both.
Containers ==
    LET own == WidgetContainer("TextBox")
    IN {own, {p \in own : p[1] # "Label"}, {p \in own : p[1] # "Focused"},
        {p \in own : p[1] \notin {"Label", "Focused"}}}

\* The state is handed to another container: update takes the container as
\* an argument, and the state is a shared handle (state.clone()) that more
\* than one template can be given.
Reattach(w) ==
    /\ w # widget
    /\ widget' = w
    /\ op' = "attach"
    /\ sinceKey' = OpenKey
    /\ sinceWrite' = OpenWrite
    /\ scen' = -1
    /\ UNCHANGED <<text, focused, updated, heap, ret, observers, path,
                   handlers, ran>>

NextAny == Next \/ \E w \in Containers : Reattach(w)

InitAny ==
    /\ text = << >>
    /\ focused = FALSE
    /\ updated = FALSE
    /\ heap = [c \in Cells |-> CellDefault(c)]
    /\ widget \in Containers
    /\ op = "create"
    /\ ret = FALSE
    /\ observers = << >>
    /\ path = "none"
    /\ sinceKey = FALSE
    /\ sinceWrite = FALSE
    /\ scen = 0
    /\ handlers = TextBoxHandlers
    /\ ran = << >>

SpecAny == InitAny /\ [][NextAny]_vars

TypeOK ==
    /\ text \in Strings(MaxLen)
    /\ Label \in Strings(MaxLen)
    /\ focused \in BOOLEAN /\ updated \in BOOLEAN

\* ------------------------------------------------------------------ claims

HasLabel == HasProperty(widget, "Label")

\* C1 (as claimed): after an update call that follows a handled key (the
\* handler set updated), Label equals the text buffer and updated is false.
\* The early return of update on Label = text leaves updated set.
C1_UpdateAfterKeyClearsUpdated ==
    (op = "update" /\ sinceKey /\ HasLabel) => (Label = text /\ ~updated)

\* C2: an update call in a state where updated is false and Label differs
\* from the text buffer makes the buffer equal to that Label value and leaves
\* Label unchanged.
C2_ExternalPulledInward ==
    [][(op' = "update" /\ ~updated /\ HasLabel /\ Label # text)
          => (text' = Label /\ Label' = Label)]_vars

C2_Witness ==
    /\ op = "update" /\ path = "pull"
    /\ sinceWrite /\ ~sinceKey
    /\ text = Label /\ Len(text) > 0

\* C3: an update call in a state where Label already equals the text buffer
\* changes neither Label nor the buffer.
C3_SteadyStateNoOp ==
    [][(op' = "update" /\ HasLabel /\ Label = text)
          => (Label' = Label /\ text' = text)]_vars

C3_Witness ==
    /\ op = "update" /\ path = "equal"
    /\ ~sinceKey /\ ~sinceWrite
    /\ Label = text /\ Len(text) > 0

\* C4 (as claimed): the text-input scenario.  From the constructed state key
\* 'a' leaves Label "" and returns false; after Focused := true and keys
\* 'a' 'b' 'c' the next update leaves Label = "abc"; after Backspace the
\* next update leaves Label = "ab".
C4_TextInputScenario ==
    /\ scen = 1 => (Label = << >> /\ ret = FALSE)
    /\ scen = 6 => Label = << 97, 98, 99 >>
    /\ scen = 8 => Label = << 97, 98 >>

\* C5: a key delivered while the internal focused flag is false returns
\* false and leaves the text buffer, the updated flag and every property
\* cell unchanged.
C5_UnfocusedKeyIgnored ==
    [][(op' = "key" /\ ~focused)
          => (ret' = FALSE /\ text' = text /\ updated' = updated /\ heap' = heap)]_vars

C5_Witness ==
    /\ op = "key" /\ ~focused /\ ~ret
    /\ FocusedProp
    /\ Read("TextBox", "WaterMark") = << 97 >>

\* C6: every holder of a shared property reads the same value: the Label
\* through the WaterMarkTextBlock and through the TextBox, the Selector
\* through the TextBox, the Container and the WaterMarkTextBlock, the
\* WaterMark through the TextBox and the WaterMarkTextBlock.
C6_SharedPropertiesAlias ==
    /\ Read("WaterMarkTextBlock", "Label") = Read("TextBox", "Label")
    /\ Read("Container", "Selector") = Read("TextBox", "Selector")
    /\ Read("WaterMarkTextBlock", "Selector") = Read("TextBox", "Selector")
    /\ Read("WaterMarkTextBlock", "WaterMark") = Read("TextBox", "WaterMark")

C6_Witness ==
    /\ op = "update" /\ path = "push"
    /\ Len(text) > 0
    /\ Read("WaterMarkTextBlock", "Label") = text
    /\ Read("Container", "Selector") = "other"
    /\ Read("WaterMarkTextBlock", "WaterMark") = << 97 >>

\* No key was handled and no external Label write happened since the last
\* completed update call.
Settled == op = "update" \/ (~sinceKey /\ ~sinceWrite)

\* C7: from the completion of an update call until the next handled key or
\* external Label write, Label equals the text buffer, and a further update
\* call in that span does not change Label.
C7_SettledAfterUpdate ==
    /\ []((Settled /\ HasLabel) => Label = text)
    /\ [][(Settled /\ HasLabel /\ op' = "update") => Label' = Label]_vars

C7_Witness ==
    /\ op = "update" /\ path = "equal"
    /\ sinceKey /\ sinceWrite
    /\ Label = text /\ Len(text) > 0

\* C8 (as claimed): a key is handled (the handler edits, sets updated and
\* returns true) iff the container's Focused property is true at the moment
\* of delivery.  The handler reads the mirror that update refreshes instead.
C8_HandledIffFocusedProperty ==
    op = "key" => (ret <=> FocusedProp)

\* A callback of the chain that returns true on the last key: an "Accept",
\* or the TextBox's own when the key finds the internal focused flag set
\* (the handler does not change the flag).
Returned(i) ==
    handlers[i] = "Accept" \/ (handlers[i] = "TextBox" /\ focused)

\* C9: after a key was dispatched, the observers of the event are the
\* callbacks up to and including the first that returned true, and nobody
\* after it: no later callback, no parent.  If no callback returned true,
\* every callback and the parent saw it.  So a key delivered to the focused
\* TextBox stops at the TextBox's callback, and an ignored key goes on.
C9_ConsumedKeyNotForwarded ==
    op = "key" =>
        /\ \A i \in 1..Len(handlers) :
              (Returned(i) /\ \A j \in 1..(i - 1) : ~Returned(j))
                  => observers = SubSeq(handlers, 1, i)
        /\ (\A i \in 1..Len(handlers) : ~Returned(i))
              => observers = handlers \o << "Parent" >>
        /\ ret <=> focused

C9_Witness ==
    /\ op = "key" /\ ret /\ focused
    /\ Len(handlers) > 1
    /\ observers = << "TextBox" >>
    /\ Len(text) > 0

\* C10: an update call in a state where updated is set and Label differs
\* from the text buffer writes the buffer into Label, leaves the buffer
\* unchanged and clears updated.
C10_InternalWins ==
    [][(op' = "update" /\ updated /\ HasLabel /\ Label # text)
          => (Label' = text /\ text' = text /\ ~updated')]_vars

C10_Witness ==
    /\ op = "update" /\ path = "push"
    /\ sinceKey /\ sinceWrite
    /\ Label = text /\ ~updated

\* C11: a key delivered while the internal focused flag is set appends its
\* one character when it maps to a byte, removes the last character on
\* Backspace (nothing on the empty buffer) and leaves the buffer unchanged
\* otherwise; in all three cases updated is set and true is returned.
C11_FocusedKeyEffect ==
    [][\A key \in Keys :
          (focused /\ KeyDown(key)) =>
              /\ Len(KeyToByte(key)) = 1 =>
                    /\ Len(text') = Len(text) + 1
                    /\ SubSeq(text', 1, Len(text)) = text
                    /\ text'[Len(text')] = KeyToByte(key)[1]
              /\ key = "Backspace" =>
                    IF Len(text) = 0 THEN text' = text
                    ELSE /\ Len(text') = Len(text) - 1
                         /\ text' = SubSeq(text, 1, Len(text) - 1)
              /\ (Len(KeyToByte(key)) = 0 /\ key # "Backspace") => text' = text
              /\ updated' = TRUE
              /\ ret' = TRUE]_vars

C11_Witness ==
    /\ op = "key" /\ ret /\ updated /\ focused
    /\ text = << 97, 98 >>
    /\ Label = << 97 >>

HasFocused == HasProperty(widget, "Focused")

\* C12: an update call on a container without a Label does not abort: it
\* returns, and the updates of the other widgets of the tick run; it leaves
\* the text buffer and the updated flag unchanged.  On a container without
\* a Focused it returns likewise and leaves the internal focused flag at
\* its previous value.
C12_MissingPropertySkipped ==
    [][op' = "update" =>
          /\ (~HasLabel \/ ~HasFocused) =>
                (path' # "panic" /\ ran' = TickOrder)
          /\ ~HasLabel => (path' = "nolabel" /\ text' = text /\ updated' = updated)
          /\ ~HasFocused => focused' = focused]_vars

C12_Witness ==
    /\ op = "update" /\ path = "nolabel"
    /\ ~HasLabel /\ ~HasFocused
    /\ focused /\ updated /\ Len(text) > 0
    /\ ran = TickOrder

\* C13 (as claimed): when no key was handled and the Label was written from
\* outside between two update calls, the second update keeps the written
\* value in Label (it does not push the buffer over it) and the buffer
\* equals it.  An updated flag left set by an earlier early return makes
\* update push the old buffer over the written value.
C13_ExternalWriteKept ==
    (op = "update" /\ ~sinceKey /\ sinceWrite /\ HasLabel)
        => (path # "push" /\ text = Label)

\* C14: after every update call on a container with a Focused property the
\* internal focused flag equals the property, also on the early return; no
\* other operation changes the internal focused flag.
C14_FocusMirror ==
    /\ []((op = "update" /\ HasFocused) => focused = FocusedProp)
    /\ [][op' # "update" => focused' = focused]_vars

C14_Witness ==
    /\ op = "update" /\ path = "equal"
    /\ focused /\ FocusedProp
    /\ ~updated /\ text = << >>

\* C15: the key-down handler writes no property cell; Label changes only in
\* an update call or by a holder's write; an update call writes neither the
\* Focused, the WaterMark nor the Selector.
C15_OperationFrames ==
    [][/\ op' = "key" => heap' = heap
       /\ Label' # Label => op' \in {"update", "write"}
       /\ op' = "update" =>
              \A c \in Cells : CellType(c) # "Label" => heap'[c] = heap[c]]_vars

C15_Witness ==
    /\ op = "key" /\ ret
    /\ Label # text
    /\ FocusedProp
    /\ Read("TextBox", "WaterMark") = << 97 >>
    /\ Read("TextBox", "Selector") = "other"

\* The node of the tree with the given debug name.
Node(name) == CHOOSE t \in Tree : t.debug_name = name

\* C16: the TextBox template is Single with exactly one child, the
\* Container; the Stack template is Multi and has no children, state or
\* properties of its own; inside the TextBox the Stack has exactly the two
\* children ScrollViewer and Cursor, in that order; no Single node of the
\* tree has more than one child.  Stated of every state of the widget whose
\* container is the one instantiated from the TextBox template.
C16_ArityRespected ==
    widget = TextBoxCreate.properties =>
    /\ TextBoxCreate.parent_type = "Single"
    /\ Len(TextBoxCreate.children) = 1
    /\ TextBoxCreate.children[1].debug_name = "Container"
    /\ StackCreate.parent_type = "Multi"
    /\ StackCreate.children = << >>
    /\ StackCreate.state = FALSE
    /\ StackCreate.properties = {}
    /\ Len(Node("Stack").children) = 2
    /\ Node("Stack").children[1].debug_name = "ScrollViewer"
    /\ Node("Stack").children[2].debug_name = "Cursor"
    /\ \A t \in Tree : t.parent_type = "Single" => Len(t.children) <= 1

C16_Witness ==
    /\ op = "create"
    /\ widget = Node("TextBox").properties
    /\ {t.debug_name : t \in Tree} =
          {"TextBox", "Container", "Stack", "ScrollViewer",
           "WaterMarkTextBlock", "Cursor"}
    /\ Node("Stack").parent_type = "Multi"

====
